---- MODULE Spec2Model ----
(***************************************************************************)
(* A model of the stereo-pair tools of tiMaxal/pair3d:                     *)
(*   - the greedy threshold matcher of pair3d.v3.py (sorting phase) and    *)
(*     of stereogrampo.mpo-test.py (subfolders matcher),                   *)
(*   - the strict-adjacency matcher find_image_pairs of create_mpo_gui.py, *)
(*   - the stereogram compositor functions,                                *)
(*   - the MPO encoder create_mpo_file / create_mpo,                       *)
(*   - the pair loop of the stereogrampo batch worker,                     *)
(*   - Start, Pause/Continue, the threshold entries and the worker threads *)
(*     of the GUI applications and of the web application.                 *)
(* Each part has its own specification; the variables of the other parts   *)
(* are held at an idle value.                                              *)
(***************************************************************************)
EXTENDS Integers, Sequences, FiniteSets, TLC

VARIABLES
    \* ---- pair matchers ----
    program,              \* which matcher runs: "pair3d", "stereogrampo", "find_image_pairs"
    timestamp,            \* image -> what get_image_timestamp / the EXIF read returns
    phash,                \* image -> imagehash.phash of the image (a set of bit positions)
    TIME_DIFF_THRESHOLD,  \* module global of pair3d / stereogrampo
    HASH_DIFF_THRESHOLD,  \* module global of pair3d / stereogrampo
    image_files,          \* the list of files being matched
    file_info,            \* find_image_pairs: the files that have a timestamp
    evaluated,            \* find_image_pairs: the candidates <<file1, file2>> the scan took
    batch_thresholds,     \* pair3d: None, or Some(<<time, hash>>) in force when the batch began
    compared_with,        \* pair3d: the <<name, value>> of the thresholds the comparisons read
    edits,                \* pair3d: the number of update_thresholds calls that changed a value
    used,                 \* the matcher's used-set
    pairs,                \* the list of pairs, each <<path1, path2>>
    i,                    \* outer loop index (1-based)
    j,                    \* inner loop index (1-based)
    pc,                   \* position of the matcher
    moved,                \* pair3d: file -> "", "_pairs" or "_singles"
    num_pairs,            \* pair3d: reported count
    num_singles,          \* pair3d: reported count
    pairs_folders,        \* stereogrampo: the file lists of the _pairs folders
    subfolder,            \* stereogrampo: index of the folder being matched
    \* ---- stereogram compositor ----
    left_img,             \* the left buffer handed to the compositor
    right_img,            \* the right buffer handed to the compositor
    format,               \* the function applied: "anaglyph", "sbs", "sbs_reverse", "lrl"
    result,               \* what the function returned: None or Some(image)
    \* ---- MPO encoder ----
    fs,                   \* path -> None (no such file) or Some(list of JPEG streams)
    writable,             \* os.access(output_dir, os.W_OK)
    mpo_pc,               \* position in create_mpo_file
    left_size,            \* local of create_mpo_file
    right_size,           \* local of create_mpo_file
    temp_left,            \* local: None or Some(path)
    temp_right,           \* local: None or Some(path)
    temp_mpo,             \* local: None or Some(path)
    mpf_tags,             \* local: None or Some(the dictionary)
    ret,                  \* None while running, then Some(returned value)
    cleanup_log,          \* the temporary files whose failed os.remove was logged
    \* ---- batch of stereogrampo: the pair loop of task ----
    formats,              \* the selected outputs (anaglyph_var ... mpo_output)
    task_pc,              \* position of the task thread
    matches,              \* pair index -> None or Some(len(matches)) seen by align_images
    aligned,              \* what align_images returned for the current pair
    processed_files,      \* the list of written outputs, each <<format, pair index>>
    processed,            \* processed[0]
    log,                  \* the logging records, each <<message, pair index>>
    raised,               \* None, or Some(the exception that left task)
    summary,              \* None, or Some(<<pairs reported, files reported>>)
    calls,                \* the calls task made: <<"align_images", left, right>>, ...
    truncated,            \* the output paths <<format, pair index>> left incomplete
    progress,             \* progress["value"]: the last value update_progress was given
    deleted,              \* the original files removed by the delete-originals loop
    \* ---- Start, Pause/Continue and the worker threads ----
    app,                  \* "pair3d", "stereogrampo", "MPOrama" or "web"
    pause_event,          \* threading.Event: TRUE when set (running), FALSE when cleared
    pause_continue_label, \* the text of the Pause/Continue button
    worker_pc,            \* position of the worker in its loop over the items
    item,                 \* index of the item (pair, .mpo file, image) the loop is at
    total_files,          \* number of items of the batch
    skips,                \* pair3d: item -> the iteration ends in `continue`
    started,              \* the items whose processing has begun
    paused_since,         \* None, or Some(`started` when the flag was last cleared)
    start_button,         \* MPOrama: "normal" or "disabled"
    processing,           \* web: the module global `processing`
    requests,             \* web: /upload handlers past the `if processing` test
    threads               \* the worker threads started so far, each by its position

compVars == <<left_img, right_img, format, result>>

mpoVars == <<fs, writable, mpo_pc, left_size, right_size, temp_left, temp_right,
             temp_mpo, mpf_tags, ret, cleanup_log>>

batchVars == <<formats, task_pc, matches, aligned, processed_files, processed, log,
               raised, summary, calls, truncated, progress, deleted>>

ctlVars == <<app, pause_event, pause_continue_label, worker_pc, item, total_files, skips, started,
             paused_since, start_button, processing, requests, threads>>

\* what the matchers read but never write
matchInputs == <<program, timestamp, phash, TIME_DIFF_THRESHOLD, HASH_DIFF_THRESHOLD,
                 pairs_folders, compVars, mpoVars, batchVars, ctlVars>>

tuneVars == <<batch_thresholds, compared_with, edits>>

matchVars == <<matchInputs, image_files, file_info, evaluated, tuneVars, used, pairs, i, j, pc,
               moved, num_pairs, num_singles, subfolder>>

vars == <<matchVars, compVars, mpoVars, batchVars, ctlVars>>

(***************************************************************************)
(* Bounds and input domains                                                *)
(***************************************************************************)
\* the largest number of image files in the scanned folder
MaxImages == 4

\* modification times given to the greedy matchers, in seconds: the
\* differences 0, 2, 8 and 10 occur
TimeValues == {0, 2, 10}

\* EXIF times given to find_image_pairs, in seconds: the differences
\* 0, 1, 2, 3, 4, 5 and 6 occur
ExifTimeValues == {0, 1, 2, 5, 6}

\* perceptual hashes as sets of set bits: the distances 0, 3, 7 and 10 occur
HashValues == {{}, {1, 2, 3}, 1..10}

\* the hashes given to the stereogrampo matcher: the distances 0 and 10 occur
FewHashValues == {{}, 1..10}

\* Python's None, and a present value
None == <<>>
Some(x) == <<x>>
Val(o) == o[1]

Images(n) == 1..n

\* A byte length is kept as <<hi, lo>>, standing for hi * 65536 + lo with
\* lo < 65536, so that lengths of 2^32 and more can be written.
Long(n) == <<n \div 65536, n % 65536>>
LongAdd(a, b) == <<a[1] + b[1] + ((a[2] + b[2]) \div 65536), (a[2] + b[2]) % 65536>>

(***************************************************************************)
(* Helpers of the matchers                                                 *)
(***************************************************************************)
\* datetime.min, the sort key of a file without timestamp (pair3d.v3.py:518)
DatetimeMin == -1

\* key=lambda x: get_image_timestamp(x) or datetime.min
SortKey(f) == IF timestamp[f] = None THEN DatetimeMin ELSE Val(timestamp[f])

\* list.sort is stable: x goes after every element whose key is <= its own
RECURSIVE InsertByKey(_, _)
InsertByKey(x, s) ==
    IF s = <<>> THEN <<x>>
    ELSE IF SortKey(Head(s)) <= SortKey(x)
         THEN <<Head(s)>> \o InsertByKey(x, Tail(s))
         ELSE <<x>> \o s

\* the list left in the order of the directory listing
SortedByKey_Unsorted(s) == s

RECURSIVE SortedByKey(_)
SortedByKey(s) ==
    IF s = <<>> THEN <<>>
    ELSE InsertByKey(s[Len(s)], SortedByKey(SubSeq(s, 1, Len(s) - 1)))

\* hash1 - hash2 of imagehash: the number of differing bits
HashDistance(h1, h2) == Cardinality((h1 \ h2) \cup (h2 \ h1))

\* a comparison that also takes a distance equal to the threshold
is_similar_image_Inclusive(file1, file2) ==
    HashDistance(phash[file1], phash[file2]) <= HASH_DIFF_THRESHOLD

\* is_similar_image(file1, file2)
is_similar_image(file1, file2) ==
    HashDistance(phash[file1], phash[file2]) < HASH_DIFF_THRESHOLD

\* abs((time2 - time1).total_seconds())
AbsDiff(t1, t2) == IF t1 <= t2 THEN t2 - t1 ELSE t1 - t2

\* the time test with the threshold itself excluded
TimeClose_Strict(path1, path2) ==
    /\ timestamp[path2] # None
    /\ AbsDiff(Val(timestamp[path1]), Val(timestamp[path2])) < TIME_DIFF_THRESHOLD

\* the test of pair3d.v3.py:531 on a candidate path2 for path1
TimeClose(path1, path2) ==
    /\ timestamp[path2] # None
    /\ AbsDiff(Val(timestamp[path1]), Val(timestamp[path2])) <= TIME_DIFF_THRESHOLD

\* the members of the pairs
Members(ps) == {ps[k][1] : k \in DOMAIN ps} \cup {ps[k][2] : k \in DOMAIN ps}

(***************************************************************************)
(* Initial state of the matchers: a folder of 1..MaxImages files in        *)
(* listing order, each with a timestamp (or none) and a perceptual hash.   *)
(***************************************************************************)
\* TIME_DIFF_THRESHOLD = 2 and HASH_DIFF_THRESHOLD = 10 at import
DefaultTimeDiff == 2
DefaultHashDiff == 10

Timestamps(prog) ==
    {None} \cup {Some(t) : t \in IF prog = "find_image_pairs" THEN ExifTimeValues
                                                             ELSE TimeValues}

Hashes(prog) ==
    IF prog = "pair3d" THEN HashValues
    ELSE IF prog = "stereogrampo" THEN FewHashValues
    ELSE {{}}

\* the images 1..n as one folder (k = n) or as two folders 1..k and k+1..n
SplitFolders(n, k) ==
    IF k = n THEN << [x \in 1..n |-> x] >>
    ELSE << [x \in 1..k |-> x], [x \in 1..(n - k) |-> k + x] >>

\* the compositor at rest
CompIdle ==
    /\ left_img = None /\ right_img = None /\ format = "none" /\ result = None

\* the MPO encoder at rest
MpoIdle ==
    /\ fs = <<>> /\ writable = TRUE /\ mpo_pc = "idle"
    /\ left_size = Long(0) /\ right_size = Long(0)
    /\ temp_left = None /\ temp_right = None /\ temp_mpo = None
    /\ mpf_tags = None /\ ret = None /\ cleanup_log = {}

\* the batch at rest
BatchIdle ==
    /\ formats = {} /\ task_pc = "idle" /\ matches = <<>> /\ aligned = None
    /\ processed_files = <<>> /\ processed = 0 /\ log = {} /\ raised = None
    /\ summary = None /\ calls = {} /\ truncated = {}
    /\ progress = 0 /\ deleted = {}

\* no batch started, the pause flag set as at construction
CtlIdle ==
    /\ app = "none" /\ pause_event = TRUE /\ pause_continue_label = "Pause"
    /\ worker_pc = "idle" /\ item = 1
    /\ total_files = 0 /\ skips = <<>> /\ started = {} /\ paused_since = None
    /\ start_button = "normal" /\ processing = FALSE /\ requests = 0
    /\ threads = <<>>

MatchInit ==
    /\ CompIdle
    /\ MpoIdle
    /\ BatchIdle
    /\ CtlIdle
    /\ \E n \in 1..MaxImages :
        /\ program \in {"pair3d", "stereogrampo", "find_image_pairs"}
        /\ timestamp \in [Images(n) -> Timestamps(program)]
        /\ phash \in [Images(n) -> Hashes(program)]
        /\ TIME_DIFF_THRESHOLD = DefaultTimeDiff
        /\ HASH_DIFF_THRESHOLD = DefaultHashDiff
        /\ image_files = [k \in 1..n |-> k]
        /\ pairs_folders \in IF program = "stereogrampo"
                             THEN {SplitFolders(n, k) : k \in {(n + 1) \div 2, n}}
                             ELSE {<<>>}
        /\ subfolder = 1
        /\ file_info = <<>>
        /\ evaluated = <<>>
        /\ batch_thresholds = None
        /\ compared_with = {}
        /\ edits = 0
        /\ used = {}
        /\ pairs = <<>>
        /\ i = 1
        /\ j = 1
        /\ pc = "start"
        /\ moved = [f \in Images(n) |-> ""]
        /\ num_pairs = 0
        /\ num_singles = 0

(***************************************************************************)
(* The greedy threshold matcher: pair3d.v3.py, sorting phase               *)
(***************************************************************************)
\* a matcher that forgets to mark the second member as used
UsedAfterPair_OnlyFirst(path1, path2) == used \cup {path1}

\* used.add(path1); used.add(path2)
UsedAfterPair(path1, path2) == used \cup {path1, path2}

\* pairs.append((path1, path2))
PairsAfterPair(path1, path2) == Append(pairs, <<path1, path2>>)

\* one candidate path2 = image_files[j] of the inner loop: the pair is taken
\* when path2 is unused, close in time and similar
Accepts(path1, path2) ==
    /\ path2 \notin used
    /\ TimeClose(path1, path2)
    /\ is_similar_image(path1, path2)

\* the module globals that the tests on one candidate read: the time
\* threshold when path2 is unused and has a timestamp, the hash threshold when
\* the time test passed and is_similar_image is called
ThresholdsRead(path1, path2) ==
    IF path2 \in used \/ timestamp[path2] = None THEN {}
    ELSE {<<"TIME_DIFF_THRESHOLD", TIME_DIFF_THRESHOLD>>}
         \cup IF TimeClose(path1, path2)
              THEN {<<"HASH_DIFF_THRESHOLD", HASH_DIFF_THRESHOLD>>}
              ELSE {}

\* image_files.sort(key=lambda x: get_image_timestamp(x) or datetime.min)
P3Sort ==
    /\ program = "pair3d" /\ pc = "start"
    /\ image_files' = SortedByKey(image_files)
    /\ used' = {} /\ pairs' = <<>> /\ i' = 1
    /\ batch_thresholds' = Some(<<TIME_DIFF_THRESHOLD, HASH_DIFF_THRESHOLD>>)
    /\ pc' = "outer"
    /\ UNCHANGED <<matchInputs, evaluated, compared_with, edits, subfolder,
                   file_info, j, moved, num_pairs, num_singles>>

\* for i, path1 in enumerate(image_files): the two `continue` tests
P3Outer ==
    /\ program = "pair3d" /\ pc = "outer"
    /\ IF i > Len(image_files)
       THEN pc' = "move" /\ UNCHANGED <<i, j>>
       ELSE IF image_files[i] \in used \/ timestamp[image_files[i]] = None
            THEN i' = i + 1 /\ UNCHANGED <<pc, j>>
            ELSE pc' = "inner" /\ j' = i + 1 /\ UNCHANGED i
    /\ UNCHANGED <<matchInputs, evaluated, tuneVars, subfolder,
                   image_files, file_info, used, pairs, moved, num_pairs, num_singles>>

\* for path2 in image_files[i+1:]: one candidate
P3Inner ==
    /\ program = "pair3d" /\ pc = "inner"
    /\ IF j > Len(image_files)
       THEN pc' = "pause" /\ UNCHANGED <<j, used, pairs>>
       ELSE IF Accepts(image_files[i], image_files[j])
            THEN /\ pairs' = PairsAfterPair(image_files[i], image_files[j])
                 /\ used' = UsedAfterPair(image_files[i], image_files[j])
                 /\ pc' = "pause"
                 /\ UNCHANGED j
            ELSE j' = j + 1 /\ UNCHANGED <<pc, used, pairs>>
    /\ compared_with' = IF j > Len(image_files) THEN compared_with
                        ELSE compared_with \cup ThresholdsRead(image_files[i], image_files[j])
    /\ UNCHANGED <<matchInputs, evaluated, batch_thresholds, edits, subfolder,
                   image_files, file_info, i, moved, num_pairs, num_singles>>

\* while not pause_event.is_set(): ...; progress_callback(...): end of one iteration
P3EndIteration ==
    /\ program = "pair3d" /\ pc = "pause"
    /\ i' = i + 1
    /\ pc' = "outer"
    /\ UNCHANGED <<matchInputs, evaluated, tuneVars, subfolder,
                   image_files, file_info, used, pairs, j, moved, num_pairs, num_singles>>

\* the files of the pairs go to _pairs, the files not in used go to _singles
MovedAfterSorting ==
    [f \in DOMAIN moved |->
        IF f \in Members(pairs) THEN "_pairs"
        ELSE IF f \notin used THEN "_singles"
        ELSE moved[f]]

\* a count that subtracts the pairs instead of their members
CountSingles_MinusPairs == Len(image_files) - Len(pairs)

\* num_singles = len(image_files) - len(used)
CountSingles == Len(image_files) - Cardinality(used)

\* the two move loops and the reported counts
P3MoveAndReport ==
    /\ program = "pair3d" /\ pc = "move"
    /\ moved' = MovedAfterSorting
    /\ num_pairs' = Len(pairs)
    /\ num_singles' = CountSingles
    /\ pc' = "done"
    /\ UNCHANGED <<matchInputs, evaluated, tuneVars, subfolder,
                   image_files, file_info, used, pairs, i, j>>

(***************************************************************************)
(* The greedy matcher of stereogrampo.mpo-test.py (structure "subfolders") *)
(***************************************************************************)
\* files.sort(key=get_image_timestamp) compares the keys themselves: with two
\* or more files, a None key makes the comparison raise TypeError
SortRaises(files) ==
    Len(files) >= 2 /\ \E k \in DOMAIN files : timestamp[files[k]] = None

\* for subfolder, files in pairs_folders.items(): files.sort(...); used = set()
SgFolder ==
    /\ program = "stereogrampo" /\ pc = "start"
    /\ IF subfolder > Len(pairs_folders)
       THEN pc' = "done" /\ UNCHANGED <<image_files, used, i>>
       ELSE IF SortRaises(pairs_folders[subfolder])
            THEN pc' = "crashed" /\ UNCHANGED <<image_files, used, i>>
            ELSE /\ image_files' = SortedByKey(pairs_folders[subfolder])
                 /\ used' = {}
                 /\ i' = 1
                 /\ pc' = "outer"
    /\ UNCHANGED <<matchInputs, evaluated, tuneVars, subfolder, file_info, pairs, j, moved, num_pairs,
                   num_singles>>

\* for i, path1 in enumerate(files): (no test of time1)
SgOuter ==
    /\ program = "stereogrampo" /\ pc = "outer"
    /\ IF i > Len(image_files)
       THEN pc' = "start" /\ subfolder' = subfolder + 1 /\ UNCHANGED <<i, j>>
       ELSE IF image_files[i] \in used
            THEN i' = i + 1 /\ UNCHANGED <<pc, j, subfolder>>
            ELSE pc' = "inner" /\ j' = i + 1 /\ UNCHANGED <<i, subfolder>>
    /\ UNCHANGED <<matchInputs, evaluated, tuneVars, image_files, file_info, used, pairs, moved, num_pairs,
                   num_singles>>

\* time2 - time1 with time1 = None raises TypeError
DiffRaises(path1, path2) ==
    /\ path2 \notin used
    /\ timestamp[path2] # None
    /\ timestamp[path1] = None

\* for j in range(i + 1, len(files)): one candidate
SgInner ==
    /\ program = "stereogrampo" /\ pc = "inner"
    /\ IF j > Len(image_files)
       THEN pc' = "outer" /\ i' = i + 1 /\ UNCHANGED <<j, used, pairs>>
       ELSE IF DiffRaises(image_files[i], image_files[j])
            THEN pc' = "crashed" /\ UNCHANGED <<i, j, used, pairs>>
            ELSE IF timestamp[image_files[i]] # None
                    /\ Accepts(image_files[i], image_files[j])
                 THEN /\ pairs' = PairsAfterPair(image_files[i], image_files[j])
                      /\ used' = UsedAfterPair(image_files[i], image_files[j])
                      /\ pc' = "outer" /\ i' = i + 1
                      /\ UNCHANGED j
                 ELSE j' = j + 1 /\ UNCHANGED <<pc, i, used, pairs>>
    /\ UNCHANGED <<matchInputs, evaluated, tuneVars, subfolder, image_files, file_info, moved, num_pairs,
                   num_singles>>

(***************************************************************************)
(* The strict-adjacency matcher: create_mpo_gui.py, find_image_pairs       *)
(***************************************************************************)
\* the smallest and the largest accepted difference, in seconds
MinGap == 1
MaxGap == 4

\* file_info: the files, in name order, whose EXIF timestamp could be read
FipRead ==
    /\ program = "find_image_pairs" /\ pc = "start"
    /\ file_info' = SelectSeq(image_files, LAMBDA f : timestamp[f] # None)
    /\ pairs' = <<>>
    /\ pc' = "sort"
    /\ UNCHANGED <<matchInputs, evaluated, tuneVars, subfolder, image_files, used, i, j, moved, num_pairs,
                   num_singles>>

\* file_info.sort(key=lambda x: x[1]); i = 0
FipSort ==
    /\ program = "find_image_pairs" /\ pc = "sort"
    /\ file_info' = SortedByKey(file_info)
    /\ i' = 1
    /\ pc' = "scan"
    /\ UNCHANGED <<matchInputs, evaluated, tuneVars, subfolder, image_files, used, pairs, j, moved,
                   num_pairs, num_singles>>

\* a window that also takes two images of the same second
GapOk_FromZero(file1, file2) ==
    LET time_diff == Val(timestamp[file2]) - Val(timestamp[file1])
    IN  0 <= time_diff /\ time_diff <= MaxGap

\* time_diff = (ts2 - ts1).total_seconds(); 1 <= time_diff <= 4
GapOk(file1, file2) ==
    LET time_diff == Val(timestamp[file2]) - Val(timestamp[file1])
    IN  MinGap <= time_diff /\ time_diff <= MaxGap

\* valid_pair: no other entry's timestamp strictly between ts1 and ts2
valid_pair(file1, file2) ==
    LET ts1 == Val(timestamp[file1])
        ts2 == Val(timestamp[file2])
    IN  ~ \E k \in DOMAIN file_info :
            LET other_ts == Val(timestamp[file_info[k]])
            IN  other_ts # ts1 /\ other_ts # ts2 /\ ts1 < other_ts /\ other_ts < ts2

\* an index advance of one where the code has two
AfterAccept_ByOne(k) == k + 1

\* the index after an accepted pair and after a rejected candidate
AfterAccept(k) == k + 2
AfterReject(k) == k + 1

\* one iteration of: while i < len(file_info) - 1
FipScan ==
    /\ program = "find_image_pairs" /\ pc = "scan"
    /\ IF i >= Len(file_info)
       THEN pc' = "done" /\ UNCHANGED <<i, pairs, evaluated>>
       ELSE /\ evaluated' = Append(evaluated, <<file_info[i], file_info[i + 1]>>)
            /\ IF GapOk(file_info[i], file_info[i + 1])
                  /\ valid_pair(file_info[i], file_info[i + 1])
               THEN /\ pairs' = PairsAfterPair(file_info[i], file_info[i + 1])
                    /\ i' = AfterAccept(i)
                    /\ UNCHANGED pc
               ELSE i' = AfterReject(i) /\ UNCHANGED <<pc, pairs>>
    /\ UNCHANGED <<matchInputs, tuneVars, subfolder, image_files, file_info, used, j, moved,
                   num_pairs, num_singles>>

(***************************************************************************)
(* The specification of the matchers                                       *)
(***************************************************************************)
Init == MatchInit

Next ==
    \/ P3Sort \/ P3Outer \/ P3Inner \/ P3EndIteration \/ P3MoveAndReport
    \/ SgFolder \/ SgOuter \/ SgInner
    \/ FipRead \/ FipSort \/ FipScan

Spec == Init /\ [][Next]_vars

(***************************************************************************)
(* The threshold entries of pair3d.v3.py: update_thresholds, bound to      *)
(* <FocusOut> and <Return> of the two entries, runs in the UI thread while *)
(* the task thread matches                                                 *)
(***************************************************************************)
\* what max(0.01, float(time_diff_var.get())) and
\* max(1, int(hash_diff_var.get())) can give
TimeEdits == {1, 2, 10}
HashEdits == {1, 10}

\* the edits followed in one run
MaxEdits == 1

TuneInit == MatchInit /\ program = "pair3d"

\* update_thresholds while the task thread is in its sorting phase: each of
\* the two assignments keeps the previous value when the entry does not parse
update_thresholds ==
    /\ pc \notin {"start", "done"}
    /\ edits < MaxEdits
    /\ edits' = edits + 1
    /\ \E t \in TimeEdits \cup {TIME_DIFF_THRESHOLD},
          h \in HashEdits \cup {HASH_DIFF_THRESHOLD} :
          /\ <<t, h>> # <<TIME_DIFF_THRESHOLD, HASH_DIFF_THRESHOLD>>
          /\ TIME_DIFF_THRESHOLD' = t
          /\ HASH_DIFF_THRESHOLD' = h
    /\ UNCHANGED <<program, timestamp, phash, pairs_folders, image_files, file_info,
                   evaluated, batch_thresholds, compared_with, used, pairs, i, j, pc,
                   moved, num_pairs, num_singles, subfolder, compVars, mpoVars,
                   batchVars, ctlVars>>

TuneNext ==
    \/ P3Sort \/ P3Outer \/ P3Inner \/ P3EndIteration \/ P3MoveAndReport
    \/ update_thresholds

SpecTune == TuneInit /\ [][TuneNext]_vars

(***************************************************************************)
(* The matchers at rest, for the specifications of the other parts         *)
(***************************************************************************)
MatchIdle ==
    /\ program = "none" /\ timestamp = <<>> /\ phash = <<>>
    /\ TIME_DIFF_THRESHOLD = DefaultTimeDiff /\ HASH_DIFF_THRESHOLD = DefaultHashDiff
    /\ image_files = <<>> /\ pairs_folders = <<>> /\ subfolder = 1
    /\ file_info = <<>> /\ evaluated = <<>> /\ used = {} /\ pairs = <<>> /\ i = 1 /\ j = 1
    /\ batch_thresholds = None /\ compared_with = {} /\ edits = 0
    /\ pc = "idle" /\ moved = <<>> /\ num_pairs = 0 /\ num_singles = 0

matchState == <<program, timestamp, phash, TIME_DIFF_THRESHOLD, HASH_DIFF_THRESHOLD,
                pairs_folders, image_files, file_info, evaluated, tuneVars, used, pairs,
                i, j, pc, moved, num_pairs, num_singles, subfolder>>

(***************************************************************************)
(* The stereogram compositor: stereogrampo.mpo-test.py, create_anaglyph,   *)
(* create_side_by_side, create_left_right_left                             *)
(***************************************************************************)
\* the largest width and height of a buffer
MaxWidth == 2
MaxHeight == 2

\* the colours of the pixels, (R, G, B)
PixelValues == {<<200, 10, 10>>, <<10, 210, 220>>}

\* pixel positions (x, y) of a w x h image, from (0, 0)
Coords(w, h) == (0..(w - 1)) \X (0..(h - 1))

\* the RGB images of size w x h
ImagesOfSize(w, h) == {[size |-> <<w, h>>, px |-> p] : p \in [Coords(w, h) -> PixelValues]}

Buffers == UNION {ImagesOfSize(w, h) : w \in 1..MaxWidth, h \in 1..MaxHeight}

Width(img) == img.size[1]
Height(img) == img.size[2]

\* numpy assigns right[:, :, c] to a plane of left's shape when each of its
\* dimensions is the same or 1 (broadcasting), and raises ValueError otherwise
Broadcastable(left, right) ==
    /\ Width(right) \in {Width(left), 1}
    /\ Height(right) \in {Height(left), 1}

\* the element of right that lands on (x, y) of a plane of left's shape
BroadcastAt(right, x, y) ==
    right.px[<< IF Width(right) = 1 THEN 0 ELSE x, IF Height(right) = 1 THEN 0 ELSE y >>]

\* an anaglyph that takes its green channel from the left image
create_anaglyph_GreenFromLeft(left, right) ==
    IF ~Broadcastable(left, right) THEN None
    ELSE Some([size |-> left.size,
               px |-> [c \in Coords(Width(left), Height(left)) |->
                         << left.px[c][1],
                            left.px[c][2],
                            BroadcastAt(right, c[1], c[2])[3] >>]])

\* create_anaglyph(left_img, right_img): None when numpy raises
create_anaglyph(left, right) ==
    IF ~Broadcastable(left, right) THEN None
    ELSE Some([size |-> left.size,
               px |-> [c \in Coords(Width(left), Height(left)) |->
                         << left.px[c][1],
                            BroadcastAt(right, c[1], c[2])[2],
                            BroadcastAt(right, c[1], c[2])[3] >>]])

\* Image.new('RGB', (w, h)): a black canvas
NewImage(w, h) == [size |-> <<w, h>>, px |-> [c \in Coords(w, h) |-> <<0, 0, 0>>]]

\* canvas.paste(img, (ox, oy)): img covers the canvas from (ox, oy), cut at
\* the border of the canvas
Paste(canvas, img, ox, oy) ==
    [canvas EXCEPT !.px =
        [c \in DOMAIN canvas.px |->
            IF /\ ox <= c[1] /\ c[1] < ox + Width(img)
               /\ oy <= c[2] /\ c[2] < oy + Height(img)
            THEN img.px[<<c[1] - ox, c[2] - oy>>]
            ELSE canvas.px[c]]]

\* a side-by-side that ignores its reverse argument
create_side_by_side_NeverReversed(left, right, reverse) ==
    LET w == Width(left)
        h == Height(left)
    IN  Some(Paste(Paste(NewImage(w * 2, h), left, 0, 0), right, w, 0))

\* create_side_by_side(left_img, right_img, reverse)
create_side_by_side(left, right, reverse) ==
    LET w == Width(left)
        h == Height(left)
        sbs == NewImage(w * 2, h)
    IN  IF reverse
        THEN Some(Paste(Paste(sbs, right, 0, 0), left, w, 0))
        ELSE Some(Paste(Paste(sbs, left, 0, 0), right, w, 0))

\* create_left_right_left(left_img, right_img)
create_left_right_left(left, right) ==
    LET w == Width(left)
        h == Height(left)
        lrl == NewImage(w * 3, h)
    IN  Some(Paste(Paste(Paste(lrl, left, 0, 0), right, w, 0), left, w * 2, 0))

CompInit ==
    /\ BatchIdle
    /\ CtlIdle
    /\ MatchIdle
    /\ MpoIdle
    /\ left_img \in {Some(b) : b \in Buffers}
    /\ right_img \in {Some(b) : b \in Buffers}
    /\ format = "none"
    /\ result = None

Anaglyph ==
    /\ format = "none" /\ left_img # None
    /\ format' = "anaglyph"
    /\ result' = create_anaglyph(Val(left_img), Val(right_img))
    /\ UNCHANGED <<matchState, batchVars, ctlVars, mpoVars, left_img, right_img>>

SideBySide ==
    /\ format = "none" /\ left_img # None
    /\ \E reverse \in BOOLEAN :
          /\ format' = IF reverse THEN "sbs_reverse" ELSE "sbs"
          /\ result' = create_side_by_side(Val(left_img), Val(right_img), reverse)
    /\ UNCHANGED <<matchState, batchVars, ctlVars, mpoVars, left_img, right_img>>

LeftRightLeft ==
    /\ format = "none" /\ left_img # None
    /\ format' = "lrl"
    /\ result' = create_left_right_left(Val(left_img), Val(right_img))
    /\ UNCHANGED <<matchState, batchVars, ctlVars, mpoVars, left_img, right_img>>

CompNext == Anaglyph \/ SideBySide \/ LeftRightLeft

SpecComp == CompInit /\ [][CompNext]_vars

(***************************************************************************)
(* The MPO encoder: stereogrampo.mpo-test.py, create_mpo_file              *)
(* (create_mpo of create_mpo_gui.py builds the same tags and the same      *)
(* container)                                                              *)
(***************************************************************************)
\* byte lengths of the input JPEG files: 1000, 2000, 70000 and 2^32, which
\* does not fit 4 bytes
SizeValues == {Long(1000), Long(2000), Long(70000), <<65536, 0>>}

\* the bytes by which ExifTool's rewrite lengthens the first stream when it
\* adds the tags of the command line to it
GrowthValues == {Long(0), Long(32), Long(100)}

Paths == {"left", "right", "temp_left", "temp_right", "temp_mpo", "output"}

\* one JPEG stream: its length in bytes and the metadata it carries
Jpeg(n, dt, ycc) == [len |-> n, DateTime |-> dt, YCbCrPositioning |-> ycc, mpf |-> None]

\* os.path.getsize(path): the bytes of all the streams of the file
RECURSIVE TotalLen(_)
TotalLen(streams) ==
    IF streams = <<>> THEN Long(0) ELSE LongAdd(Head(streams).len, TotalLen(Tail(streams)))

getsize(path) == TotalLen(Val(fs[path]))

exists(path) == fs[path] # None

\* n.to_bytes(4, byteorder='big') raises OverflowError from 2^32 on
Overflows(n) == n[1] >= 65536

\* the four bytes with the least significant byte first
to_bytes4_Little(n) == << n[2] % 256, n[2] \div 256, n[1] % 256, n[1] \div 256 >>

\* n.to_bytes(4, byteorder='big')
to_bytes4(n) == << n[1] \div 256, n[1] % 256, n[2] \div 256, n[2] % 256 >>

\* int.from_bytes(b, 'big') of four bytes
from_bytes4(b) == << b[1] * 256 + b[2], b[3] * 256 + b[4] >>

\* 'MPF:MPEntry' of mpf_tags: two entries of attribute, size, offset, dependency
MPEntry(lsize, rsize) ==
    <<0, 0, 0, 0>> \o to_bytes4(lsize) \o <<0, 0, 0, 0>> \o <<0, 0, 0, 0>> \o
    <<0, 2, 0, 0>> \o to_bytes4(rsize) \o to_bytes4(lsize) \o <<0, 0, 0, 0>>

\* the dictionary mpf_tags
MpfTags(lsize, rsize) ==
    [MPFVersion |-> "0100",
     NumberOfImages |-> 2,
     MPEntry |-> MPEntry(lsize, rsize),
     MPType |-> "Baseline Stereo Image",
     YCbCrPositioning |-> "Co-Sited"]

\* bytes.hex(): two hexadecimal digits (0..15) for each byte
RECURSIVE hex(_)
hex(b) == IF b = <<>> THEN <<>> ELSE <<Head(b) \div 16, Head(b) % 16>> \o hex(Tail(b))

\* the bytes that a string of hexadecimal digits stands for
RECURSIVE unhex(_)
unhex(d) == IF d = <<>> THEN <<>> ELSE <<d[1] * 16 + d[2]>> \o unhex(Tail(Tail(d)))

\* the arguments of the exiftool command that writes the tags
ExiftoolArgs(tags) ==
    [MPFVersion |-> tags.MPFVersion,
     NumberOfImages |-> tags.NumberOfImages,
     MPEntry |-> hex(tags.MPEntry),
     MPType |-> tags.MPType,
     YCbCrPositioning |-> tags.YCbCrPositioning]

\* exiftool <args> -o output temp_mpo: the tags go into the first stream,
\* which grows by `growth` bytes; what follows it is copied as it is
ExiftoolOutput(streams, args, growth) ==
    << [Head(streams) EXCEPT
            !.len = LongAdd(@, growth),
            !.YCbCrPositioning = args.YCbCrPositioning,
            !.mpf = Some([MPFVersion |-> args.MPFVersion,
                          NumberOfImages |-> args.NumberOfImages,
                          MPEntry |-> unhex(args.MPEntry),
                          MPType |-> args.MPType])] >> \o Tail(streams)

\* et.set_tags([temp_left, temp_right], {...}): one timestamp, Co-Sited
WithSetTags(streams, now) ==
    [k \in DOMAIN streams |->
        [streams[k] EXCEPT !.DateTime = now, !.YCbCrPositioning = "Co-Sited"]]

MpoInit ==
    /\ BatchIdle
    /\ CtlIdle
    /\ MatchIdle
    /\ CompIdle
    /\ \E ls \in SizeValues, rs \in SizeValues, le \in BOOLEAN, re \in BOOLEAN :
          fs = [p \in Paths |->
                  IF p = "left" /\ le THEN Some(<<Jpeg(ls, "10:00:00", "Centered")>>)
                  ELSE IF p = "right" /\ re THEN Some(<<Jpeg(rs, "10:00:02", "Centered")>>)
                  ELSE None]
    /\ writable \in BOOLEAN
    /\ mpo_pc = "start"
    /\ left_size = Long(0) /\ right_size = Long(0)
    /\ temp_left = None /\ temp_right = None /\ temp_mpo = None
    /\ mpf_tags = None /\ ret = None /\ cleanup_log = {}

\* return False, or an exception caught by `except Exception`: on to `finally`
Fails == mpo_pc' = "finally" /\ ret' = Some(FALSE)

\* the input files exist and the output directory is writable (lines 352-361)
MpoCheck ==
    /\ mpo_pc = "start"
    /\ IF exists("left") /\ exists("right") /\ writable
       THEN mpo_pc' = "sizes" /\ UNCHANGED ret
       ELSE Fails
    /\ UNCHANGED <<matchState, batchVars, ctlVars, compVars, cleanup_log, fs, writable, left_size, right_size, temp_left,
                   temp_right, temp_mpo, mpf_tags>>

\* sizes of the input images, temporary copies of the input files (365-373)
MpoCopy ==
    /\ mpo_pc = "sizes"
    /\ left_size' = getsize("left")
    /\ right_size' = getsize("right")
    /\ temp_left' = Some("temp_left")
    /\ temp_right' = Some("temp_right")
    /\ \/ /\ fs' = [fs EXCEPT !["temp_left"] = fs["left"], !["temp_right"] = fs["right"]]
          /\ mpo_pc' = "tags" /\ UNCHANGED ret
       \/ \* shutil.copy2 of the right file raises
          /\ fs' = [fs EXCEPT !["temp_left"] = fs["left"]]
          /\ Fails
    /\ UNCHANGED <<matchState, batchVars, ctlVars, compVars, cleanup_log, writable, temp_mpo, mpf_tags>>

\* the MPF tags (377-394)
MpoTags ==
    /\ mpo_pc = "tags"
    /\ IF Overflows(left_size) \/ Overflows(right_size)
       THEN Fails /\ UNCHANGED mpf_tags
       ELSE /\ mpf_tags' = Some(MpfTags(left_size, right_size))
            /\ mpo_pc' = "concat" /\ UNCHANGED ret
    /\ UNCHANGED <<matchState, batchVars, ctlVars, compVars, cleanup_log, fs, writable, left_size, right_size, temp_left,
                   temp_right, temp_mpo>>

\* the temporary concatenated file (397-403)
MpoConcat ==
    /\ mpo_pc = "concat"
    /\ temp_mpo' = Some("temp_mpo")
    /\ \/ /\ fs' = [fs EXCEPT !["temp_mpo"] =
                        Some(Val(fs["temp_left"]) \o Val(fs["temp_right"]))]
          /\ mpo_pc' = "set_tags" /\ UNCHANGED ret
       \/ \* the write of the second stream raises
          /\ fs' = [fs EXCEPT !["temp_mpo"] = fs["temp_left"]]
          /\ Fails
    /\ UNCHANGED <<matchState, batchVars, ctlVars, compVars, cleanup_log, writable, left_size, right_size, temp_left,
                   temp_right, mpf_tags>>

\* one timestamp and YCbCrPositioning on the two temporary copies (406-419)
MpoSetTags ==
    /\ mpo_pc = "set_tags"
    /\ \/ /\ fs' = [fs EXCEPT
                      !["temp_left"] = Some(WithSetTags(Val(@), "now")),
                      !["temp_right"] = Some(WithSetTags(Val(@), "now"))]
          /\ mpo_pc' = "exiftool" /\ UNCHANGED ret
       \/ \* ExifToolHelper() or set_tags raises
          /\ Fails /\ UNCHANGED fs
    /\ UNCHANGED <<matchState, batchVars, ctlVars, compVars, cleanup_log, writable, left_size, right_size, temp_left,
                   temp_right, temp_mpo, mpf_tags>>

\* subprocess.run(exiftool ... -o output_mpo_path temp_mpo) (422-437)
MpoExiftool ==
    /\ mpo_pc = "exiftool"
    /\ \/ \E growth \in GrowthValues :
             /\ fs' = [fs EXCEPT !["output"] =
                          Some(ExiftoolOutput(Val(fs["temp_mpo"]),
                                              ExiftoolArgs(Val(mpf_tags)), growth))]
             /\ mpo_pc' = "verify" /\ UNCHANGED ret
       \/ \* returncode 0 and nothing written
          /\ mpo_pc' = "verify" /\ UNCHANGED <<fs, ret>>
       \/ \* returncode != 0
          /\ Fails /\ UNCHANGED fs
    /\ UNCHANGED <<matchState, batchVars, ctlVars, compVars, cleanup_log, writable, left_size, right_size, temp_left,
                   temp_right, temp_mpo, mpf_tags>>

\* the MPO file exists; its tags are read for the log (440-450)
MpoVerify ==
    /\ mpo_pc = "verify"
    /\ \/ /\ exists("output")
          /\ mpo_pc' = "finally" /\ ret' = Some(TRUE)
       \/ \* the file is missing, or get_tags raises
          Fails
    /\ UNCHANGED <<matchState, batchVars, ctlVars, compVars, cleanup_log, fs, writable, left_size, right_size, temp_left,
                   temp_right, temp_mpo, mpf_tags>>

\* a `finally` block that removes the concatenated file only
TempFiles_OnlyMpo ==
    {Val(t) : t \in {x \in {temp_mpo} : x # None}}

\* the temporary files the `finally` block looks at
TempFiles ==
    {Val(t) : t \in {x \in {temp_left, temp_right, temp_mpo} : x # None}}

\* finally: os.remove of each temporary file that exists; a failing os.remove
\* is logged and leaves the file (454-461)
MpoFinally ==
    /\ mpo_pc = "finally"
    /\ \E kept \in SUBSET {t \in TempFiles : exists(t)} :
          /\ fs' = [p \in Paths |-> IF p \in TempFiles /\ p \notin kept THEN None ELSE fs[p]]
          /\ cleanup_log' = kept
    /\ mpo_pc' = "returned"
    /\ UNCHANGED <<matchState, batchVars, ctlVars, compVars, writable, left_size, right_size, temp_left,
                   temp_right, temp_mpo, mpf_tags, ret>>

MpoNext ==
    \/ MpoCheck \/ MpoCopy \/ MpoTags \/ MpoConcat \/ MpoSetTags \/ MpoExiftool
    \/ MpoVerify \/ MpoFinally

SpecMpo == MpoInit /\ [][MpoNext]_vars

(***************************************************************************)
(* The MPO writer of stereogrampo.py: create_mpo (two in-memory JPEG       *)
(* encodings, a MakerNote built by piexif, the two streams written one     *)
(* after the other, piexif.insert on the written file)                     *)
(***************************************************************************)
pxFrame == <<matchState, batchVars, ctlVars, compVars, writable, temp_left, temp_right,
             temp_mpo, cleanup_log>>

\* the value of piexif.ExifIFD.MakerNote in mpf_ifd: 'MPF\0', the number of
\* images, and two entries of attribute, size, offset, data
MakerNote ==
    <<77, 80, 70, 0>> \o <<0, 0, 0, 2>> \o
    <<176, 1, 0, 0>> \o <<0, 0, 0, 0>> \o <<0, 0, 0, 0>> \o <<0, 0, 0, 0>> \o
    <<176, 1, 0, 0>> \o <<0, 0, 0, 0>> \o <<0, 0, 0, 0>> \o <<0, 0, 0, 0>>

\* piexif.insert(exif_bytes, output_path): the Exif segment goes into the
\* first stream, which grows by `growth` bytes; the rest of the file is kept
PiexifInsert(streams, exif, growth) ==
    << [Head(streams) EXCEPT !.len = LongAdd(@, growth), !.mpf = Some(exif)] >>
    \o Tail(streams)

PxInit ==
    /\ BatchIdle
    /\ CtlIdle
    /\ MatchIdle
    /\ CompIdle
    /\ fs = [p \in Paths |-> None]
    /\ writable = TRUE
    /\ mpo_pc = "px_left"
    /\ left_size = Long(0) /\ right_size = Long(0)
    /\ temp_left = None /\ temp_right = None /\ temp_mpo = None
    /\ mpf_tags = None /\ ret = None /\ cleanup_log = {}

\* `except Exception`: the error is logged and create_mpo returns None
PxFails == mpo_pc' = "returned" /\ ret' = Some("None")

\* left_img.save(left_buffer, format='JPEG', quality=95) and getvalue()
\* (331-334): left_size holds len(left_data)
PxSaveLeft ==
    /\ mpo_pc = "px_left"
    /\ \/ \E n \in SizeValues : left_size' = n /\ mpo_pc' = "px_right" /\ UNCHANGED ret
       \/ \* the image cannot be written as JPEG
          PxFails /\ UNCHANGED left_size
    /\ UNCHANGED <<pxFrame, fs, right_size, mpf_tags>>

\* right_img.save(right_buffer, format='JPEG', quality=95) and getvalue()
\* (336-339): right_size holds len(right_data)
PxSaveRight ==
    /\ mpo_pc = "px_right"
    /\ \/ \E n \in SizeValues : right_size' = n /\ mpo_pc' = "px_dump" /\ UNCHANGED ret
       \/ PxFails /\ UNCHANGED right_size
    /\ UNCHANGED <<pxFrame, fs, left_size, mpf_tags>>

\* mpf_ifd, exif_dict and piexif.dump (341-358): mpf_tags holds exif_bytes
PxDump ==
    /\ mpo_pc = "px_dump"
    /\ mpf_tags' = Some(MakerNote)
    /\ mpo_pc' = "px_write"
    /\ UNCHANGED <<pxFrame, fs, left_size, right_size, ret>>

\* open(output_path, 'wb'), write(left_data), write(right_data) (360-363)
PxWrite ==
    /\ mpo_pc = "px_write"
    /\ \/ /\ fs' = [fs EXCEPT !["output"] =
                        Some(<<Jpeg(left_size, None, None), Jpeg(right_size, None, None)>>)]
          /\ mpo_pc' = "px_insert" /\ UNCHANGED ret
       \/ \* the write of the second stream raises
          /\ fs' = [fs EXCEPT !["output"] = Some(<<Jpeg(left_size, None, None)>>)]
          /\ PxFails
       \/ \* open raises
          PxFails /\ UNCHANGED fs
    /\ UNCHANGED <<pxFrame, left_size, right_size, mpf_tags>>

\* piexif.insert(exif_bytes, output_path) (366) and the return
PxInsert ==
    /\ mpo_pc = "px_insert"
    /\ \/ \E growth \in GrowthValues :
             fs' = [fs EXCEPT !["output"] =
                       Some(PiexifInsert(Val(@), Val(mpf_tags), growth))]
       \/ \* piexif.insert raises
          UNCHANGED fs
    /\ PxFails
    /\ UNCHANGED <<pxFrame, left_size, right_size, mpf_tags>>

PxNext == PxSaveLeft \/ PxSaveRight \/ PxDump \/ PxWrite \/ PxInsert

SpecPx == PxInit /\ [][PxNext]_vars

(***************************************************************************)
(* The batch: stereogrampo.mpo-test.py, align_images and the pair loop of  *)
(* start_processing.task                                                   *)
(***************************************************************************)
\* the most pairs in a batch
MaxPairs == 2

\* align_images gives up below this many matches
MinMatches == 10

\* the numbers of matches bf.match may return
MatchCounts == {MinMatches - 1, MinMatches, MinMatches + 1}

\* the stereogram blocks of the loop body, in the order of the code
Stereograms == <<"anaglyph", "sbs", "sbs_reverse", "lrl">>

Formats == {"anaglyph", "sbs", "sbs_reverse", "lrl", "mpo"}

\* the matcher's test with the threshold itself counted as too few
TooFew_Inclusive(n) == n <= MinMatches

\* if len(matches) < 10
TooFew(n) == n < MinMatches

\* align_images: ret is None or Some(the aligned images), msg is what it logs.
\* loaded: cv2.imread returned both images; descriptors: ORB found
\* descriptors in both; n: len(matches); homography: findHomography gave H
align_images(loaded, descriptors, n, homography) ==
    IF ~loaded THEN [ret |-> None, msg |-> "Failed to load images for alignment"]
    ELSE IF ~descriptors THEN [ret |-> None, msg |-> "No descriptors found"]
    ELSE IF TooFew(n) THEN [ret |-> None, msg |-> "Too few matches"]
    ELSE IF ~homography THEN [ret |-> None, msg |-> "Homography estimation failed"]
    ELSE [ret |-> Some("aligned"), msg |-> ""]

\* the task thread starts the loop over the pairs the matcher produced
BatchInit ==
    /\ CompIdle
    /\ MpoIdle
    /\ CtlIdle
    /\ program = "stereogrampo" /\ timestamp = <<>> /\ phash = <<>>
    /\ TIME_DIFF_THRESHOLD = DefaultTimeDiff /\ HASH_DIFF_THRESHOLD = DefaultHashDiff
    /\ image_files = <<>> /\ pairs_folders = <<>> /\ subfolder = 1
    /\ file_info = <<>> /\ evaluated = <<>> /\ used = {} /\ j = 1
    /\ batch_thresholds = None /\ compared_with = {} /\ edits = 0
    /\ pc = "done" /\ moved = <<>> /\ num_pairs = 0 /\ num_singles = 0
    /\ \E n \in 0..MaxPairs :
          /\ pairs = [k \in 1..n |-> <<2 * k - 1, 2 * k>>]
          /\ matches = [k \in 1..n |-> None]
    /\ i = 1
    /\ formats \in SUBSET Formats
    /\ task_pc = "loop"
    /\ aligned = None
    /\ processed_files = <<>>
    /\ processed = 0
    /\ log = {}
    /\ raised = None
    /\ summary = None
    /\ calls = {}
    /\ truncated = {}
    /\ progress = 0
    /\ deleted = {}

\* what the task thread never writes
batchFrame == <<program, timestamp, phash, TIME_DIFF_THRESHOLD, HASH_DIFF_THRESHOLD,
                pairs_folders, image_files, file_info, evaluated, tuneVars, used, pairs,
                j, pc, moved, num_pairs, num_singles, subfolder, compVars, mpoVars, ctlVars,
                formats>>

\* for i, (left_path, right_path) in enumerate(pairs): validate the images
TaskValidate ==
    /\ task_pc = "loop"
    /\ i <= Len(pairs)
    /\ \E valid \in BOOLEAN :
          IF valid
          THEN task_pc' = "align" /\ UNCHANGED <<i, log>>
          ELSE /\ log' = log \cup {<<"Invalid image pair", i>>}
               /\ i' = i + 1
               /\ UNCHANGED task_pc
    /\ UNCHANGED <<batchFrame, progress, deleted, matches, aligned, processed_files, processed, raised,
                   summary, calls, truncated>>

\* alignment whenever any output at all is selected, the MPO included
AnyOutput_NeedsAlignment == formats # {}

\* if any([anaglyph_var.get() == "1", sbs_var.get() == "1", ...])
NeedsAlignment == formats \cap {Stereograms[k] : k \in DOMAIN Stereograms} # {}

\* perform alignment only if needed for stereogram outputs
TaskAlign ==
    /\ task_pc = "align"
    /\ IF ~NeedsAlignment
       THEN /\ aligned' = None
            /\ task_pc' = Stereograms[1]
            /\ UNCHANGED <<i, matches, log, calls>>
       ELSE \E loaded \in BOOLEAN, descriptors \in BOOLEAN, n \in MatchCounts,
               homography \in BOOLEAN :
               LET a == align_images(loaded, descriptors, n, homography) IN
               /\ aligned' = a.ret
               /\ calls' = calls \cup {<<"align_images", pairs[i][1], pairs[i][2]>>}
               /\ matches' = [matches EXCEPT ![i] = IF loaded /\ descriptors
                                                    THEN Some(n) ELSE None]
               /\ IF a.ret = None
                  THEN /\ log' = log \cup {<<a.msg, i>>, <<"Skipping pair", i>>}
                       /\ i' = i + 1
                       /\ task_pc' = "loop"
                  ELSE /\ task_pc' = Stereograms[1]
                       /\ UNCHANGED <<i, log>>
    /\ UNCHANGED <<batchFrame, progress, deleted, processed_files, processed, raised, summary, truncated>>

\* the block that follows the block of format f
After(f) ==
    LET k == CHOOSE x \in DOMAIN Stereograms : Stereograms[x] = f
    IN  IF k = Len(Stereograms) THEN "mpo" ELSE Stereograms[k + 1]

\* result.save(output_path, quality=95) opens output_path itself for writing;
\* when it raises after the open, the bytes written so far stay at
\* output_path (partial) unless the file was new and PIL could remove it
AfterFailedSave(path, partial) ==
    IF partial THEN truncated \cup {path} ELSE truncated

\* one stereogram block: result = create_...(left_img, right_img);
\* if result: result.save(output_path, quality=95); processed_files.append
TaskStereogram ==
    /\ task_pc \in {Stereograms[k] : k \in DOMAIN Stereograms}
    /\ IF task_pc \notin formats
       THEN /\ task_pc' = After(task_pc)
            /\ UNCHANGED <<processed_files, log, raised, truncated>>
       ELSE \E composed \in BOOLEAN, saved \in BOOLEAN, partial \in BOOLEAN :
               IF ~composed
               THEN /\ log' = log \cup {<<"Failed to create", i>>}
                    /\ task_pc' = After(task_pc)
                    /\ UNCHANGED <<processed_files, raised, truncated>>
               ELSE IF ~saved
               THEN /\ raised' = Some(<<"IOError", task_pc, i>>)
                    /\ task_pc' = "died"
                    /\ truncated' = AfterFailedSave(<<task_pc, i>>, partial)
                    /\ UNCHANGED <<processed_files, log>>
               ELSE /\ processed_files' = Append(processed_files, <<task_pc, i>>)
                    /\ task_pc' = After(task_pc)
                    /\ UNCHANGED <<log, raised, truncated>>
    /\ UNCHANGED <<batchFrame, progress, deleted, i, matches, aligned, processed, summary, calls>>

\* (processed[0] / total_files) * 100 if total_files > 0 else 100, in whole
\* per cent
Percent(done, total_pairs) == IF total_pairs > 0 THEN (done * 100) \div total_pairs ELSE 100

\* if mpo_output: create_mpo_file(...); then processed[0] += 1 and
\* update_progress
TaskMpo ==
    /\ task_pc = "mpo"
    /\ IF "mpo" \notin formats
       THEN UNCHANGED <<processed_files, log, calls>>
       ELSE \E created \in BOOLEAN :
               /\ calls' = calls \cup {<<"create_mpo_file", pairs[i][1], pairs[i][2]>>}
               /\ IF created
                  THEN /\ processed_files' = Append(processed_files, <<"mpo", i>>)
                       /\ UNCHANGED log
                  ELSE /\ log' = log \cup {<<"MPO creation failed", i>>}
                       /\ UNCHANGED processed_files
    /\ processed' = processed + 1
    /\ progress' = Percent(processed', Len(pairs))
    /\ i' = i + 1
    /\ task_pc' = "loop"
    /\ UNCHANGED <<batchFrame, deleted, matches, aligned, raised, summary, truncated>>

\* for left_path, right_path in pairs: os.remove of both files; a pair whose
\* os.remove raises (index in `failing`) is logged and keeps its files
DeletedOriginals(failing) ==
    UNION {{pairs[k][1], pairs[k][2]} : k \in DOMAIN pairs \ failing}

\* the failures of os.remove that are followed: none, or that of the first pair
RemoveFailures == {{}, {1} \cap DOMAIN pairs}

\* after the loop: the originals are deleted when the option is on, an output
\* was written and the question is answered yes; then the log file and the
\* "Done" message
TaskSummary ==
    /\ task_pc = "loop"
    /\ i > Len(pairs)
    /\ \E delete_originals \in BOOLEAN, yes \in BOOLEAN, failing \in RemoveFailures :
          deleted' = IF delete_originals /\ processed_files # <<>> /\ yes
                     THEN DeletedOriginals(failing)
                     ELSE {}
    /\ summary' = Some(<<Len(pairs), Len(processed_files)>>)
    /\ task_pc' = "done"
    /\ UNCHANGED <<batchFrame, progress, i, matches, aligned, processed_files, processed, log,
                   raised, calls, truncated>>

BatchNext == TaskValidate \/ TaskAlign \/ TaskStereogram \/ TaskMpo \/ TaskSummary

SpecBatch == BatchInit /\ [][BatchNext]_vars

(***************************************************************************)
(* Pause/Continue and the worker's loop: pair3d.v3.py task (sorting phase), *)
(* stereogrampo.mpo-test.py task (pair loop), MPOrama task                 *)
(***************************************************************************)
\* the most items in a batch
MaxItems == 3

\* what neither the worker's loop nor Pause/Continue writes
pauseFrame == <<matchState, compVars, mpoVars, batchVars, app, total_files, skips,
                processing, requests, threads>>

\* the worker thread has just been started with the flag set
PauseInit ==
    /\ MatchIdle /\ CompIdle /\ MpoIdle /\ BatchIdle
    /\ app \in {"pair3d", "stereogrampo", "MPOrama"}
    /\ total_files \in 0..MaxItems
    /\ skips \in IF app = "pair3d" THEN [1..total_files -> BOOLEAN]
                 ELSE {[k \in 1..total_files |-> FALSE]}
    /\ pause_event = TRUE
    /\ pause_continue_label = "Pause"
    /\ worker_pc = "head"
    /\ item = 1
    /\ started = {}
    /\ paused_since = None
    /\ start_button = "normal" /\ processing = FALSE /\ requests = 0 /\ threads = <<>>

\* the Pause/Continue button: clear the flag when it is set, set it otherwise;
\* MPOrama also disables the Start button on pause and enables it on continue
pause_or_continue ==
    /\ IF pause_event
       THEN /\ pause_event' = FALSE
            /\ pause_continue_label' = "Continue"
            /\ paused_since' = Some(started)
            /\ start_button' = IF app = "MPOrama" THEN "disabled" ELSE start_button
       ELSE /\ pause_event' = TRUE
            /\ pause_continue_label' = "Pause"
            /\ paused_since' = None
            /\ start_button' = IF app = "MPOrama" THEN "normal" ELSE start_button
    /\ UNCHANGED <<pauseFrame, worker_pc, item, started>>

\* the item k is begun without a test of the flag right before it: in pair3d
\* the loop body starts with the matching of image k, the test comes after it
BeginsUnchecked(k) == app = "pair3d"

\* for ... in enumerate(...): the head of the loop
LoopHead ==
    /\ worker_pc = "head"
    /\ IF item > total_files
       THEN worker_pc' = "done" /\ UNCHANGED <<item, started>>
       ELSE IF BeginsUnchecked(item)
       THEN IF skips[item]
            THEN \* if path1 in used: continue / if time1 is None: continue
                 item' = item + 1 /\ UNCHANGED <<worker_pc, started>>
            ELSE /\ started' = started \cup {item}
                 /\ worker_pc' = "body"
                 /\ UNCHANGED item
       ELSE worker_pc' = "check" /\ UNCHANGED <<item, started>>
    /\ UNCHANGED <<pauseFrame, pause_event, pause_continue_label, paused_since, start_button>>

\* while not pause_event.is_set(): time.sleep(0.1)
PauseCheck ==
    /\ worker_pc = "check"
    /\ pause_event
    /\ IF app = "pair3d"
       THEN \* the test closes the iteration
            item' = item + 1 /\ worker_pc' = "head" /\ UNCHANGED started
       ELSE \* the test opens the iteration
            /\ started' = started \cup {item}
            /\ worker_pc' = "body"
            /\ UNCHANGED item
    /\ UNCHANGED <<pauseFrame, pause_event, pause_continue_label, paused_since, start_button>>

\* the work on one item: the inner loop of pair3d, the outputs of one pair
\* in stereogrampo, process_mpo in MPOrama
ProcessItem ==
    /\ worker_pc = "body"
    /\ IF app = "pair3d"
       THEN worker_pc' = "check" /\ UNCHANGED item
       ELSE worker_pc' = "head" /\ item' = item + 1
    /\ UNCHANGED <<pauseFrame, pause_event, pause_continue_label, paused_since, start_button, started>>

PauseNext == pause_or_continue \/ LoopHead \/ PauseCheck \/ ProcessItem

SpecPause == PauseInit /\ [][PauseNext]_vars

(***************************************************************************)
(* Start: pair3d.v3.py start_sorting, stereogrampo.mpo-test.py             *)
(* start_processing, MPOrama start_processing, pair3d-web upload_folder    *)
(***************************************************************************)
\* the most worker threads started
MaxThreads == 3

\* what Start and the life of the worker threads never write
startFrame == <<matchState, compVars, mpoVars, batchVars, app, worker_pc, item,
                total_files, skips, started, pause_continue_label>>

\* the application is up and no batch has been started
StartInit ==
    /\ MatchIdle /\ CompIdle /\ MpoIdle /\ BatchIdle
    /\ app \in {"pair3d", "stereogrampo", "MPOrama", "web"}
    /\ pause_event = TRUE /\ pause_continue_label = "Pause"
    /\ worker_pc = "idle" /\ item = 1
    /\ total_files = 0 /\ skips = <<>> /\ started = {} /\ paused_since = None
    /\ start_button = "normal" /\ processing = FALSE /\ requests = 0
    /\ threads = <<>>

\* the threads that have been started and have not finished
Alive == {t \in DOMAIN threads : threads[t] # "finished"}

\* the Start button of the GUI runs its command whenever it is enabled
MayStart == start_button = "normal"

\* the Start button: threading.Thread(target=task, daemon=True).start();
\* pair3d sets the pause flag first and leaves the label of the Pause/Continue
\* button as it is
StartClick ==
    /\ app \in {"pair3d", "stereogrampo", "MPOrama"}
    /\ MayStart
    /\ Len(threads) + requests < MaxThreads
    /\ threads' = Append(threads, "new")
    /\ IF app = "pair3d"
       THEN pause_event' = TRUE /\ paused_since' = None
       ELSE UNCHANGED <<pause_event, paused_since>>
    /\ UNCHANGED <<startFrame, start_button, processing, requests>>

\* the first statement of task; MPOrama disables the Start button there
TaskBegin ==
    /\ \E t \in DOMAIN threads :
          /\ threads[t] = "new"
          /\ threads' = [threads EXCEPT ![t] = "running"]
    /\ start_button' = IF app = "MPOrama" THEN "disabled" ELSE start_button
    /\ UNCHANGED <<startFrame, pause_event, paused_since, processing, requests>>

\* the ways in which the worker function ends: after its last statement, at
\* a `return` in its body, or with an exception that ends the thread
Endings == {"completed", "returned", "raised"}

\* process_images: `processing = False` is its last statement; the `return`
\* statements of the moving phase and an exception do not reach it
ProcessingAfter(how) == IF app = "web" /\ how = "completed" THEN FALSE ELSE processing

\* the end of task: MPOrama enables the Start button, the web worker resets
\* `processing` when it runs to its last statement
TaskEnd ==
    /\ \E t \in DOMAIN threads :
          /\ threads[t] = "running"
          /\ threads' = [threads EXCEPT ![t] = "finished"]
    /\ start_button' = IF app = "MPOrama" THEN "normal" ELSE start_button
    /\ \E how \in Endings : processing' = ProcessingAfter(how)
    /\ UNCHANGED <<startFrame, pause_event, paused_since, requests>>

\* upload_folder: if processing: return error; the handler goes on to save
\* and extract the upload
UploadCheck ==
    /\ app = "web"
    /\ ~processing
    /\ Len(threads) + requests < MaxThreads
    /\ requests' = requests + 1
    /\ UNCHANGED <<startFrame, pause_event, paused_since, start_button, processing,
                   threads>>

\* upload_folder: processing = True; threading.Thread(target=process_images)
UploadStart ==
    /\ app = "web"
    /\ requests > 0
    /\ requests' = requests - 1
    /\ processing' = TRUE
    /\ threads' = Append(threads, "new")
    /\ UNCHANGED <<startFrame, pause_event, paused_since, start_button>>

\* an upload that fails after the test (no file, bad ZIP): return error
UploadReject ==
    /\ app = "web"
    /\ requests > 0
    /\ requests' = requests - 1
    /\ UNCHANGED <<startFrame, pause_event, paused_since, start_button, processing,
                   threads>>

\* Pause/Continue in the GUI applications
PauseClick == app # "web" /\ pause_or_continue

StartNext ==
    \/ StartClick \/ TaskBegin \/ TaskEnd
    \/ UploadCheck \/ UploadStart \/ UploadReject
    \/ PauseClick

SpecStart == StartInit /\ [][StartNext]_vars

\* a started thread runs and ends, and a handler past its test goes on
SpecStartFair ==
    /\ SpecStart
    /\ WF_vars(TaskBegin) /\ WF_vars(TaskEnd) /\ WF_vars(UploadStart \/ UploadReject)

(***************************************************************************)
(* Properties of the matchers                                              *)
(***************************************************************************)
IsGreedy == program \in {"pair3d", "stereogrampo"}

\* position of file f in the list s (the files of a list are distinct)
PosIn(s, f) == CHOOSE k \in DOMAIN s : s[k] = f

\* the list is in ascending order of its sort key
Ascending(s) == \A p, q \in DOMAIN s : p < q => SortKey(s[p]) <= SortKey(s[q])

\* b is a partner the matcher may take for a: unused, with a timestamp within the
\* time threshold (inclusive) and a hash distance strictly below the threshold
Eligible(a, b) ==
    /\ b \notin used
    /\ timestamp[b] # None
    /\ AbsDiff(Val(timestamp[a]), Val(timestamp[b])) <= TIME_DIFF_THRESHOLD
    /\ HashDistance(phash[a], phash[b]) < HASH_DIFF_THRESHOLD

\* C1: after a pair matcher has run (greedy in pair3d and stereogrampo,
\* strict adjacency in find_image_pairs), no image appears in more than one
\* of the returned pairs and no pair has the same image as both members.
C1_NoImageInTwoPairs ==
    /\ \A k \in DOMAIN pairs : pairs[k][1] # pairs[k][2]
    /\ \A k, l \in DOMAIN pairs :
          k # l => {pairs[k][1], pairs[k][2]} \cap {pairs[l][1], pairs[l][2]} = {}

\* a finished pair3d run that returned two pairs
C1_Witness == program = "pair3d" /\ pc = "done" /\ Len(pairs) = 2

\* C2, the step of the greedy matcher of pair3d: a pair is only ever added
\* at the end of the list; the added pair is (a, b) with a the image under
\* examination, unused and with a timestamp, and b the first later image in
\* ascending timestamp order that is eligible; both are then marked used and
\* the scan for a stops; and the scan for a ends without a pair only when no
\* later image is eligible.
C2_Step ==
    /\ Len(pairs') >= Len(pairs)
    /\ \A k \in DOMAIN pairs : pairs'[k] = pairs[k]
    /\ (program = "pair3d" /\ pairs' # pairs) =>
          LET a == image_files[i]
              b == image_files[j]
          IN  /\ pc = "inner" /\ i < j /\ j <= Len(image_files)
              /\ Ascending(image_files)
              /\ pairs' = Append(pairs, <<a, b>>)
              /\ a \notin used /\ timestamp[a] # None
              /\ Eligible(a, b)
              /\ \A k \in (i + 1)..(j - 1) : ~Eligible(a, image_files[k])
              /\ used' = used \cup {a, b}
              /\ pc' # "inner"
    /\ (program = "pair3d" /\ pc = "inner" /\ pc' # "inner" /\ pairs' = pairs) =>
          \A k \in (i + 1)..Len(image_files) : ~Eligible(image_files[i], image_files[k])
    /\ (program = "pair3d" /\ pc = "outer" /\ pc' = "outer" /\ i <= Len(image_files)) =>
          (image_files[i] \in used \/ timestamp[image_files[i]] = None)

\* the two files of a folder of two, when both have a timestamp
TwoImages ==
    /\ program = "pair3d" /\ pc = "done" /\ Len(image_files) = 2
    /\ timestamp[1] # None /\ timestamp[2] # None
    /\ TIME_DIFF_THRESHOLD = 2 /\ HASH_DIFF_THRESHOLD = 10

\* C2, scenario A: two images exactly 2 s apart at distance 3
ScenarioA ==
    /\ TwoImages
    /\ AbsDiff(Val(timestamp[1]), Val(timestamp[2])) = 2
    /\ HashDistance(phash[1], phash[2]) = 3

\* C2, scenario B: two images 10 s apart
ScenarioB ==
    /\ TwoImages
    /\ AbsDiff(Val(timestamp[1]), Val(timestamp[2])) = 10

\* C2: greedy first-fit in ascending timestamp order, never revised, and
\* with thresholds (2 s, 10) scenario A gives one pair and no single and
\* scenario B gives no pair and two singles.
C2_GreedyFirstFit ==
    /\ [][C2_Step]_vars
    /\ [](ScenarioA => Len(pairs) = 1 /\ num_pairs = 1 /\ num_singles = 0)
    /\ [](ScenarioB => pairs = <<>> /\ num_pairs = 0 /\ num_singles = 2)

\* a finished run in which the first fit of an image was not its neighbour:
\* a candidate between the two members was passed over and stayed single
C2_Witness ==
    /\ program = "pair3d" /\ pc = "done"
    /\ \E k \in DOMAIN pairs :
          \E m \in DOMAIN image_files :
              /\ PosIn(image_files, pairs[k][1]) < m
              /\ m < PosIn(image_files, pairs[k][2])
              /\ image_files[m] \notin used
              /\ timestamp[image_files[m]] # None

\* the number of (pair, side) places that hold image f
Places(f) ==
    Cardinality({<<k, s>> \in (DOMAIN pairs) \X {1, 2} : pairs[k][s] = f})

\* C3: when the sorting phase of pair3d has finished, every scanned image is
\* either a member of exactly one pair or a single (not in the used-set),
\* the used-set holds exactly the members of the pairs, every image went to
\* _pairs or to _singles accordingly, and singles = total - 2 x pairs.
C3_NoImageDropped ==
    (program = "pair3d" /\ pc = "done") =>
        /\ used = Members(pairs)
        /\ \A f \in DOMAIN timestamp :
              /\ \E m \in DOMAIN image_files : image_files[m] = f
              /\ \/ f \in used /\ Places(f) = 1 /\ moved[f] = "_pairs"
                 \/ f \notin used /\ Places(f) = 0 /\ moved[f] = "_singles"
        /\ num_pairs = Len(pairs)
        /\ num_singles = Len(image_files) - 2 * num_pairs
        /\ num_singles = Cardinality({f \in DOMAIN timestamp : f \notin used})

\* a finished run with a pair and two singles, one of them without timestamp
C3_Witness ==
    /\ program = "pair3d" /\ pc = "done"
    /\ num_pairs = 1 /\ num_singles = 2
    /\ \E f \in DOMAIN timestamp : timestamp[f] = None

\* some entry of file_info other than a and b has its timestamp strictly
\* between those of a and b
Between(a, b) ==
    \E k \in DOMAIN file_info :
        /\ file_info[k] \notin {a, b}
        /\ Val(timestamp[a]) < Val(timestamp[file_info[k]])
        /\ Val(timestamp[file_info[k]]) < Val(timestamp[b])

\* the pair (a, b) is adjacent in ascending timestamp order, 1 to 4 s apart,
\* with no third timestamp strictly between
StrictlyAdjacent(a, b) ==
    /\ \E p \in 1..(Len(file_info) - 1) : file_info[p] = a /\ file_info[p + 1] = b
    /\ Val(timestamp[b]) - Val(timestamp[a]) \in 1..4
    /\ ~Between(a, b)

\* C6: every pair accepted by find_image_pairs is adjacent in
\* ascending timestamp order, 1 s <= dt <= 4 s apart, with no third image's
\* timestamp strictly between the two.
C6_StrictAdjacency ==
    (program = "find_image_pairs" /\ pc \in {"scan", "done"}) =>
        /\ Ascending(file_info)
        /\ \A k \in DOMAIN pairs : StrictlyAdjacent(pairs[k][1], pairs[k][2])

\* a third timestamped image lies within the pairing window of a member
NotIsolated(a, b) ==
    \E k \in DOMAIN file_info :
        /\ file_info[k] \notin {a, b}
        /\ \/ AbsDiff(Val(timestamp[file_info[k]]), Val(timestamp[a])) <= MaxGap
           \/ AbsDiff(Val(timestamp[file_info[k]]), Val(timestamp[b])) <= MaxGap

\* C6 as stated: every accepted pair is, besides, a maximal temporally
\* isolated cluster of exactly two images: no third image is within the
\* pairing window of either member.
C6_IsolatedClusterOfTwo ==
    (program = "find_image_pairs" /\ pc \in {"scan", "done"}) =>
        /\ Ascending(file_info)
        /\ \A k \in DOMAIN pairs :
              /\ StrictlyAdjacent(pairs[k][1], pairs[k][2])
              /\ ~NotIsolated(pairs[k][1], pairs[k][2])

\* a finished scan that accepted a pair and rejected an adjacent candidate
C6_Witness ==
    /\ program = "find_image_pairs" /\ pc = "done"
    /\ Len(pairs) = 1 /\ Len(file_info) = 3

(***************************************************************************)
(* Properties of the compositor                                            *)
(***************************************************************************)
\* the two buffers have the same width and the same height
EqualSize == left_img # None /\ Val(left_img).size = Val(right_img).size

L == Val(left_img)
R == Val(right_img)
W == Width(L)
H == Height(L)

\* C7: for two buffers of equal size W x H, create_anaglyph returns a W x H
\* image whose pixel at every (x, y) is (left.R, right.G, right.B) of that
\* position; left (200,10,10) and right (10,210,220) give (200,210,220).
C7_Anaglyph ==
    (format = "anaglyph" /\ EqualSize) =>
        /\ result # None
        /\ Val(result).size = <<W, H>>
        /\ DOMAIN Val(result).px = Coords(W, H)
        /\ \A c \in Coords(W, H) :
              /\ Val(result).px[c] = <<L.px[c][1], R.px[c][2], R.px[c][3]>>
              /\ (L.px[c] = <<200, 10, 10>> /\ R.px[c] = <<10, 210, 220>>)
                    => Val(result).px[c] = <<200, 210, 220>>

\* an anaglyph of two 2 x 2 buffers with the pixels of scenario C at (1, 1)
C7_Witness ==
    /\ format = "anaglyph" /\ EqualSize /\ W = 2 /\ H = 2
    /\ L.px[<<1, 1>>] = <<200, 10, 10>> /\ R.px[<<1, 1>>] = <<10, 210, 220>>
    /\ L.px[<<0, 0>>] # L.px[<<1, 1>>]
    /\ result # None

\* the canvas is n panels wide and every pixel is the pixel of the panel it
\* lies in: panel k (from 0) shows the buffer panels[k + 1]
PanelsAre(panels) ==
    /\ result # None
    /\ Val(result).size = <<Len(panels) * W, H>>
    /\ DOMAIN Val(result).px = Coords(Len(panels) * W, H)
    /\ \A c \in Coords(Len(panels) * W, H) :
          Val(result).px[c] = panels[(c[1] \div W) + 1].px[<<c[1] % W, c[2]>>]

\* C8: for two buffers of equal size W x H, side-by-side is a 2W x H canvas
\* with left at (0,0) and right at (W,0), the reversed (crossview) output has
\* right at (0,0) and left at (W,0), left-right-left is a 3W x H canvas with
\* left, right, left at (0,0), (W,0), (2W,0); every output pixel comes from
\* exactly one of these panels.
C8_Panels ==
    EqualSize =>
        /\ format = "sbs" => PanelsAre(<<L, R>>)
        /\ format = "sbs_reverse" => PanelsAre(<<R, L>>)
        /\ format = "lrl" => PanelsAre(<<L, R, L>>)

\* a crossview of two different 2 x 2 buffers
C8_Witness ==
    /\ format = "sbs_reverse" /\ EqualSize /\ W = 2 /\ H = 2
    /\ L.px[<<0, 1>>] # R.px[<<0, 1>>]
    /\ result # None

(***************************************************************************)
(* Properties of the MPO encoder                                           *)
(***************************************************************************)
\* the container at the output path, and the index its first stream carries
Container == Val(fs["output"])
Index == Val(Container[1].mpf)

\* field k (0..3: attribute, size, offset, dependency) of entry n (1 or 2)
\* of the MPEntry, read as a big-endian 32-bit number
Field(n, k) ==
    from_bytes4(SubSeq(Index.MPEntry, 16 * (n - 1) + 4 * k + 1, 16 * (n - 1) + 4 * k + 4))

\* C4: every MPO built by create_mpo_file carries MPFVersion '0100',
\* NumberOfImages 2, MPType 'Baseline Stereo Image' and a 32-byte MPEntry of
\* two 16-byte big-endian entries [left, right]: entry 1 = {attribute
\* 0x00000000, size = length of the left JPEG, offset 0, dependency 0},
\* entry 2 = {attribute 0x00020000, size = length of the right JPEG, offset =
\* length of the left JPEG, dependency 0}; lengths 1000 and 2000 give sizes
\* 1000 and 2000 and offsets 0 and 1000.
C4_MpfIndex ==
    exists("output") =>
        /\ Container[1].mpf # None
        /\ Index.MPFVersion = "0100"
        /\ Index.NumberOfImages = 2
        /\ Index.MPType = "Baseline Stereo Image"
        /\ Len(Index.MPEntry) = 32
        /\ SubSeq(Index.MPEntry, 1, 4) = <<0, 0, 0, 0>>
        /\ Field(1, 1) = getsize("left")
        /\ Field(1, 2) = Long(0)
        /\ Field(1, 3) = Long(0)
        /\ SubSeq(Index.MPEntry, 17, 20) = <<0, 2, 0, 0>>
        /\ Field(2, 1) = getsize("right")
        /\ Field(2, 2) = getsize("left")
        /\ Field(2, 3) = Long(0)
        /\ (getsize("left") = Long(1000) /\ getsize("right") = Long(2000)) =>
              /\ Index.MPEntry = <<0, 0, 0, 0,  0, 0, 3, 232,  0, 0, 0, 0,  0, 0, 0, 0,
                                   0, 2, 0, 0,  0, 0, 7, 208,  0, 0, 3, 232,  0, 0, 0, 0>>
              /\ Field(1, 1) = <<0, 1000>> /\ Field(2, 1) = <<0, 2000>>
              /\ Field(1, 2) = <<0, 0>> /\ Field(2, 2) = <<0, 1000>>

\* create_mpo_file returned True for a left file of 1000 and a right file of
\* 2000 bytes
C4_Witness ==
    /\ mpo_pc = "returned" /\ ret = Some(TRUE) /\ exists("output")
    /\ getsize("left") = Long(1000) /\ getsize("right") = Long(2000)

\* C5: in the container that create_mpo_file finally writes, the first JPEG
\* stream is immediately followed by the second, and the index read back
\* gives NumberOfImages = 2, entry1.offset = 0, entry1.size = length of the
\* first stream as stored in the container, entry2.size = length of the
\* second stream, and entry2.offset = the position at which the second
\* stream starts in the container (the length of the first stream).
C5_RoundTrip ==
    (mpo_pc = "returned" /\ ret = Some(TRUE)) =>
        /\ Len(Container) = 2
        /\ Container[1].mpf # None
        /\ Index.NumberOfImages = 2
        /\ Field(1, 2) = Long(0)
        /\ Field(1, 1) = Container[1].len
        /\ Field(2, 1) = Container[2].len
        /\ Field(2, 2) = Container[1].len

(***************************************************************************)
(* Properties of the batch                                                 *)
(***************************************************************************)
\* what was written for pair k
OutputsOf(k) == {processed_files[x][1] : x \in {y \in DOMAIN processed_files :
                                                   processed_files[y][2] = k}}

\* the step in which align_images ran on pair i and saw fewer than MinMatches
TooFewStep ==
    /\ task_pc = "align"
    /\ matches'[i] # None
    /\ matches[i] = None
    /\ Val(matches'[i]) < MinMatches

\* C9: when descriptor matching yields fewer than 10 correspondences
\* (exactly 10 is enough to continue), align_images returns a failure, no
\* stereogram is written for that pair, the failure is recorded, and the
\* batch goes on with the next pair.
C9_AlignmentFailureIsolated ==
    /\ [](\A k \in DOMAIN matches :
            matches[k] # None =>
               /\ Val(matches[k]) < MinMatches =>
                     /\ <<"Too few matches", k>> \in log
                     /\ <<"Skipping pair", k>> \in log
                     /\ OutputsOf(k) = {}
                     /\ i > k
               /\ Val(matches[k]) >= MinMatches =>
                     <<"Too few matches", k>> \notin log)
    /\ [][TooFewStep =>
            /\ aligned' = None
            /\ processed_files' = processed_files
            /\ raised' = None
            /\ i' = i + 1
            /\ task_pc' = "loop"]_vars

\* the first pair had 9 matches and was skipped, the second had exactly 10
\* and its anaglyph was written, and the batch reached its summary
C9_Witness ==
    /\ task_pc = "done" /\ summary # None
    /\ Len(pairs) = 2
    /\ matches[1] = Some(MinMatches - 1) /\ OutputsOf(1) = {}
    /\ matches[2] = Some(MinMatches) /\ "anaglyph" \in OutputsOf(2)

\* C10: a failure to write one output file (saving a stereogram JPEG or
\* writing an .mpo) is fatal only for that file: the error is caught, and
\* the batch still visits all remaining pairs and reaches its end-of-batch
\* summary.
C10_WriteFailureIsolated ==
    /\ raised = None
    /\ task_pc \in {"done", "died"} => (summary # None /\ i = Len(pairs) + 1)

\* pair k has passed the validation and the alignment block of the loop body
PastAlign(k) ==
    /\ <<"Invalid image pair", k>> \notin log
    /\ \/ k < i
       \/ k = i /\ task_pc \notin {"loop", "align"}

AlignCall(k) == <<"align_images", pairs[k][1], pairs[k][2]>>

MpoCall(k) == <<"create_mpo_file", pairs[k][1], pairs[k][2]>>

StereogramRequested == formats \cap {"anaglyph", "sbs", "sbs_reverse", "lrl"} # {}

\* C11: in the stereogrampo batch align_images is called for a pair if and
\* only if at least one of anaglyph, sbs, sbs_reverse, lrl is requested; when
\* only MPO output is requested no alignment is performed and every MPO is
\* built by create_mpo_file from the pair's two original files.
C11_AlignOnlyForStereograms ==
    \A k \in DOMAIN pairs :
        /\ AlignCall(k) \in calls => StereogramRequested
        /\ (PastAlign(k) /\ StereogramRequested) => AlignCall(k) \in calls
        /\ formats = {"mpo"} =>
              /\ AlignCall(k) \notin calls
              /\ aligned = None
              /\ matches[k] = None
              /\ "mpo" \in OutputsOf(k) => MpoCall(k) \in calls

\* a finished MPO-only batch of two pairs whose first MPO was written
C11_Witness ==
    /\ task_pc = "done" /\ formats = {"mpo"} /\ Len(pairs) = 2
    /\ "mpo" \in OutputsOf(1)
    /\ MpoCall(1) \in calls

\* C12: before the two streams are combined into the container, the MPO
\* encoder sets the capture-time fields of both streams to one identical
\* timestamp and YCbCrPositioning identically on both, so both streams inside
\* the written container carry the normalised values.
C12_ContainerNormalised ==
    (mpo_pc = "returned" /\ ret = Some(TRUE)) =>
        /\ Len(Container) = 2
        /\ Container[1].DateTime = Container[2].DateTime
        /\ Container[1].YCbCrPositioning = Container[2].YCbCrPositioning

\* C14: an output file is never left truncated at its destination path:
\* every output is written to a temporary path first and moved to the
\* destination only on success, so a failure in the middle of a write leaves
\* either no file or a complete file at the destination.
C14_NoTruncatedOutput ==
    truncated = {}

(***************************************************************************)
(* Further properties of the matchers                                      *)
(***************************************************************************)
\* a and b are within the time threshold and below the hash threshold
Compatible(a, b) ==
    /\ a # b
    /\ timestamp[a] # None /\ timestamp[b] # None
    /\ AbsDiff(Val(timestamp[a]), Val(timestamp[b])) <= TIME_DIFF_THRESHOLD
    /\ HashDistance(phash[a], phash[b]) < HASH_DIFF_THRESHOLD

\* a and b were returned as a pair
Paired(a, b) == \E k \in DOMAIN pairs : {pairs[k][1], pairs[k][2]} = {a, b}

\* the sorting phase of pair3d is over
Sorted3d == program = "pair3d" /\ pc \in {"move", "done"}

\* C17: for all images a, b (a scanned before b) within the time threshold
\* and below the hash threshold, the greedy matcher pairs a with b unless one
\* of them is paired with a third image of higher scan priority: a with an
\* image scanned before b, or b with an image scanned before a.
C17_PairedUnlessTakenEarlier ==
    Sorted3d =>
        \A a, b \in DOMAIN timestamp :
            (Compatible(a, b) /\ PosIn(image_files, a) < PosIn(image_files, b)) =>
                \/ Paired(a, b)
                \/ \E c \in DOMAIN timestamp \ {a, b} :
                      \/ Paired(a, c) /\ PosIn(image_files, c) < PosIn(image_files, b)
                      \/ Paired(b, c) /\ PosIn(image_files, c) < PosIn(image_files, a)

\* C17 as stated: the matcher pairs a with b before either of them is paired
\* with a third image, whatever the scan priority of the third image.
C17_PairedBeforeThird ==
    Sorted3d =>
        \A a, b \in DOMAIN timestamp : Compatible(a, b) => Paired(a, b)

\* three images compatible with one another: the first two in scan order
\* were paired and the third stayed single
C17_Witness ==
    /\ Sorted3d /\ Len(image_files) = 3 /\ Len(pairs) = 1
    /\ \A a, b \in DOMAIN timestamp : a # b => Compatible(a, b)
    /\ Paired(image_files[1], image_files[2])
    /\ image_files[3] \notin used

\* C18: an image whose timestamp cannot be read is never a member of a pair
\* produced by the greedy matcher (pair3d, stereogrampo's subfolder matcher),
\* ends among the singles, and does not abort the matching of the remaining
\* images.
C18_NoTimestampIsSingle ==
    IsGreedy =>
        /\ pc # "crashed"
        /\ \A f \in DOMAIN timestamp :
              timestamp[f] = None =>
                 /\ f \notin Members(pairs)
                 /\ (program = "pair3d" /\ pc = "done") => moved[f] = "_singles"

\* C19: in every pair (left, right) returned by the greedy matcher and by
\* find_image_pairs both members have a timestamp and
\* timestamp(left) <= timestamp(right).
C19_LeftNotAfterRight ==
    \A k \in DOMAIN pairs :
        /\ timestamp[pairs[k][1]] # None
        /\ timestamp[pairs[k][2]] # None
        /\ Val(timestamp[pairs[k][1]]) <= Val(timestamp[pairs[k][2]])

\* a finished pair3d run over a listing in descending time order that
\* returned the pair with the earlier image on the left
C19_Witness ==
    /\ program = "pair3d" /\ pc = "done" /\ Len(pairs) = 1
    /\ timestamp[1] # None /\ timestamp[2] # None
    /\ Val(timestamp[2]) < Val(timestamp[1])
    /\ pairs[1] = <<2, 1>>

\* the pairs the loop gave up on: unreadable image, alignment failure,
\* failed MPO creation
Skipped ==
    {k \in DOMAIN pairs :
        \/ <<"Invalid image pair", k>> \in log
        \/ <<"Skipping pair", k>> \in log
        \/ <<"MPO creation failed", k>> \in log}

\* C15: every pair that the batch skips is reported to the caller, so that
\* the end-of-batch summary distinguishes skipped pairs from processed ones:
\* the number of pairs it reports as processed leaves the skipped ones out.
C15_SkipsReported ==
    summary # None => Val(summary)[1] = Len(pairs) - Cardinality(Skipped)

(***************************************************************************)
(* Properties of Pause/Continue and Start                                  *)
(***************************************************************************)
\* C13: while the pause flag is cleared the batch worker starts no new item;
\* the flag is checked before each item, so a pause requested while an item
\* is in progress takes effect before the next item starts.
C13_CooperativePause ==
    paused_since # None => started = Val(paused_since)

\* C16: at most one batch worker runs at a time: a further Start click or
\* /upload request made before the batch finishes starts no second worker,
\* under any interleaving of Start, Pause/Continue and concurrent requests.
C16_SingleWorker ==
    Cardinality(Alive) <= 1

(***************************************************************************)
(* Further properties of the compositor                                    *)
(***************************************************************************)
\* C20: when the left and right buffers passed to a compositor function
\* differ in width or height, the function produces no image instead of
\* silently producing an output from the mismatched inputs.
C20_MismatchRejected ==
    (format # "none" /\ Val(left_img).size # Val(right_img).size) => result = None

(***************************************************************************)
(* Properties of create_mpo of stereogrampo.py                             *)
(***************************************************************************)
\* field k (0..3: attribute, size, offset, dependency) of entry n (1 or 2)
\* of the index that the first stream of the written file carries
PxField(n, k) ==
    from_bytes4(SubSeq(Val(Container[1].mpf),
                       8 + 16 * (n - 1) + 4 * k + 1, 8 + 16 * (n - 1) + 4 * k + 4))

\* C21: the MPO written by create_mpo of stereogrampo.py has an index of two
\* entries [primary, stereo-right]: entry 1 has size = byte length of the
\* encoded left JPEG stream and offset 0, entry 2 has size = byte length of
\* the encoded right JPEG stream and offset = byte length of the left
\* stream, both with dependency 0.
C21_PiexifIndex ==
    (mpo_pc = "returned" /\ exists("output") /\ Container[1].mpf # None) =>
        /\ Val(Container[1].mpf)[8] = 2
        /\ PxField(1, 1) = left_size
        /\ PxField(1, 2) = Long(0)
        /\ PxField(1, 3) = Long(0)
        /\ PxField(2, 1) = right_size
        /\ PxField(2, 2) = left_size
        /\ PxField(2, 3) = Long(0)

(***************************************************************************)
(* Properties of the scan of find_image_pairs                              *)
(***************************************************************************)
Scanning == program = "find_image_pairs" /\ pc \in {"scan", "done"}

\* the candidate evaluated[k] was accepted
Accepted(k) == \E p \in DOMAIN pairs : pairs[p] = evaluated[k]

\* C22: in find_image_pairs the scan index advances by 2 after an accepted
\* pair and by 1 after a rejected adjacent candidate, so the right member of
\* a rejected candidate is evaluated again as the left member with the next
\* image, while neither member of an accepted pair is evaluated again; the
\* scan ends after at most n - 1 iterations for n timestamped images.
C22_ScanAdvance ==
    Scanning =>
        LET n == Len(file_info)
            rejected == {k \in DOMAIN evaluated : ~Accepted(k)}
        IN  /\ i = 1 + 2 * Len(pairs) + Cardinality(rejected)
            /\ \A k \in DOMAIN evaluated :
                  IF Accepted(k)
                  THEN \A m \in DOMAIN evaluated :
                          m > k => {evaluated[m][1], evaluated[m][2]}
                                     \cap {evaluated[k][1], evaluated[k][2]} = {}
                  ELSE /\ k < Len(evaluated) =>
                             evaluated[k + 1][1] = evaluated[k][2]
                       /\ (k = Len(evaluated) /\ i < n) =>
                             file_info[i] = evaluated[k][2]
                       /\ (k = Len(evaluated) /\ pc = "done") =>
                             evaluated[k][2] = file_info[n]
            /\ n >= 1 => Len(evaluated) <= n - 1
            /\ pc = "done" => i >= n

\* the scan has ended after a rejected candidate whose right member was taken
\* again as the left member and accepted
C22_Witness ==
    /\ Scanning /\ pc = "done"
    /\ Len(evaluated) = 2
    /\ ~Accepted(1) /\ Accepted(2)

\* C27: in find_image_pairs the intervening-timestamp check never rejects a
\* candidate: for two adjacent entries of the timestamp-sorted list no other
\* entry's timestamp lies strictly between theirs, so valid_pair is always
\* True and acceptance is decided by 1 <= dt <= 4 alone, also when several
\* images share a timestamp.
C27_ValidPairAlwaysTrue ==
    Scanning =>
        /\ \A k \in 1..(Len(file_info) - 1) : valid_pair(file_info[k], file_info[k + 1])
        /\ \A k \in DOMAIN evaluated :
              Accepted(k) <=> GapOk(evaluated[k][1], evaluated[k][2])

\* the scan has accepted a candidate and rejected another in a list in which
\* two images share a timestamp
C27_Witness ==
    /\ Scanning /\ pc = "done"
    /\ \E k, m \in DOMAIN evaluated : Accepted(k) /\ ~Accepted(m)
    /\ \E a, b \in DOMAIN file_info :
          a # b /\ timestamp[file_info[a]] = timestamp[file_info[b]]

(***************************************************************************)
(* Properties of the thresholds                                            *)
(***************************************************************************)
\* C23: the time and hash thresholds are scoped to one batch: every
\* comparison the matcher makes during one batch uses the same threshold
\* values, those in force when the batch started; an edit made in the UI
\* while the batch runs does not change what the batch compares with.
C23_ThresholdsScopedToBatch ==
    batch_thresholds # None =>
        compared_with \subseteq {<<"TIME_DIFF_THRESHOLD", Val(batch_thresholds)[1]>>,
                                 <<"HASH_DIFF_THRESHOLD", Val(batch_thresholds)[2]>>}

(***************************************************************************)
(* Further properties of the batch                                         *)
(***************************************************************************)
\* the pairs for which at least one output file was written
WithOutput == {processed_files[x][2] : x \in DOMAIN processed_files}

\* C24: with 'delete originals' enabled and confirmed, stereogrampo deletes
\* an original image only if at least one output file was produced for the
\* pair it belongs to; the originals of skipped pairs are kept.
C24_DeleteOnlyWithOutput ==
    \A k \in DOMAIN pairs :
        {pairs[k][1], pairs[k][2]} \cap deleted # {} => k \in WithOutput

\* confirm_close asks "Work in progress" when 0 < progress["value"] < 100
AsksOnExit == 0 < progress /\ progress < 100

\* C29: when a stereogrampo batch with at least one pair finishes, the
\* progress value is 100 and the processed count equals the total, whatever
\* number of pairs was skipped; so after completion Exit closes the window
\* without asking the 'work in progress' question.
C29_ProgressCompleteAtEnd ==
    (task_pc = "done" /\ Len(pairs) >= 1) =>
        /\ progress = 100
        /\ processed = Len(pairs)
        /\ ~AsksOnExit

(***************************************************************************)
(* Further properties of Start and Pause/Continue                          *)
(***************************************************************************)
\* C25: in the web app every batch started by /upload eventually sets the
\* global `processing` back to False, on normal completion, on each early
\* return of process_images and when process_images raises, so that a later
\* /upload is never rejected forever.
C25_ProcessingEventuallyReset ==
    (app = "web" /\ processing) ~> ~processing

\* C28: in every reachable state of the pair3d GUI, under any sequence of
\* Start and Pause/Continue clicks, the pause button label is 'Pause' exactly
\* when the pause flag is set and 'Continue' exactly when it is cleared.
C28_LabelMatchesFlag ==
    app = "pair3d" =>
        /\ pause_continue_label = "Pause" <=> pause_event
        /\ pause_continue_label = "Continue" <=> ~pause_event

(***************************************************************************)
(* Maximality of the greedy matching                                       *)
(***************************************************************************)
\* the images left as singles: those in no pair
Singles == DOMAIN timestamp \ Members(pairs)

\* C26: the greedy matching is maximal: when the greedy matcher has finished,
\* no two images left as singles both have timestamps, differ by at most the
\* time threshold and are similar under the hash threshold.
C26_GreedyMaximal ==
    Sorted3d => \A a, b \in Singles : ~Compatible(a, b)

\* a pair was made and two images that are close in time but not similar
\* were left as singles
C26_Witness ==
    /\ Sorted3d /\ Len(pairs) = 1
    /\ \E a, b \in Singles :
          /\ a # b
          /\ timestamp[a] # None /\ timestamp[b] # None
          /\ AbsDiff(Val(timestamp[a]), Val(timestamp[b])) <= TIME_DIFF_THRESHOLD
          /\ ~Compatible(a, b)

(***************************************************************************)
(* What create_mpo_file leaves behind                                      *)
(***************************************************************************)
\* the temporary files that are in the output directory
TempsLeft == {p \in {"temp_left", "temp_right", "temp_mpo"} : exists(p)}

\* create_mpo_file has returned (with True or False, never by raising), and
\* it returned True only if the output exists
ReturnedProperly ==
    mpo_pc = "returned" =>
        /\ ret \in {Some(TRUE), Some(FALSE)}
        /\ ret = Some(TRUE) => exists("output")

\* no step of create_mpo_file changes the two input files
InputsUntouched == fs'["left"] = fs["left"] /\ fs'["right"] = fs["right"]

\* C30: after create_mpo_file returns, with True or with False, the two
\* input files are unchanged, the function has not raised, it returned True
\* only if the output .mpo exists, and a temporary file (temp_left,
\* temp_right, temp_mpo) remains in the output directory only if its
\* os.remove failed, which the function has logged.
C30_CleanupUnlessRemoveFails ==
    /\ [](ReturnedProperly /\ (mpo_pc = "returned" => TempsLeft \subseteq cleanup_log))
    /\ [][InputsUntouched]_vars

\* C30 as stated: after create_mpo_file returns none of its temporary files
\* remains in the output directory.
C30_NoTempFileRemains ==
    mpo_pc = "returned" => TempsLeft = {}

\* create_mpo_file returned False after the exiftool command failed, and the
\* three temporary files it had made are gone
C30_Witness ==
    /\ mpo_pc = "returned" /\ ret = Some(FALSE)
    /\ temp_left # None /\ temp_right # None /\ temp_mpo # None
    /\ TempsLeft = {}
    /\ exists("left") /\ exists("right") /\ ~exists("output")

====
